---- MODULE Spec2Model ----
(***************************************************************************)
(* Model of the Aurora sectorfile link installer (src/src/installer.py).   *)
(*                                                                         *)
(* The filesystem is a function from paths (sequences of names) to         *)
(* entries.  An entry is a directory, a regular file (id = the underlying  *)
(* file object, shared by hard links; data = its content), a symbolic      *)
(* link or a directory junction (to = the stored target path).             *)
(*                                                                         *)
(* Host semantics assumed for the calls the installer makes (Windows,      *)
(* CPython):                                                               *)
(*   - os.path.exists/isdir/isfile follow links; os.path.islink is true    *)
(*     for symbolic links only, never for junctions;                       *)
(*   - os.remove deletes files, symbolic links and junctions, and fails    *)
(*     on a plain directory;                                               *)
(*   - shutil.rmtree on a junction either raises (CPython 3.8 and later)   *)
(*     or empties the junction's target and removes the junction (CPython  *)
(*     3.7): both outcomes are kept as a nondeterministic choice;          *)
(*   - os.walk does not descend into links; the shared directory the       *)
(*     junctions point to holds neither an Include directory nor a file    *)
(*     with a recognized extension;                                        *)
(*   - every call that touches the filesystem may also be refused by the   *)
(*     host (permissions, unsupported link type): the actions draw such    *)
(*     refusals nondeterministically from a bounded budget.                *)
(*                                                                         *)
(* calls records, in order, the removals, link attempts and copies a run   *)
(* has asked of the host, each with its outcome.                           *)
(*                                                                         *)
(* Specifications: Spec (one run, many trees), SpecTwice (two runs in a    *)
(* row), SpecFaulty (one run on a host that refuses several calls) and     *)
(* SpecGui (the window of src/src/gui.py: worker thread, queue, _poll).    *)
(***************************************************************************)
EXTENDS Integers, Sequences, FiniteSets, TLC

VARIABLES fs, nextId, faults, rmtree_follows, pc, aurora, repo, force, dry_run,
          sectorfile_dir, src_main, alias, created, todo, linked,
          log, prog, rc, raised, fsStart, hist, calls,
          _queue, _thread, poller, widget, ui, emitted

\* the state of the window: the message queue, the worker thread, the
\* polling callback, the output widget, the progress bar and the Execute
\* button, and all the messages ever enqueued
guiVars == <<_queue, _thread, poller, widget, ui, emitted>>

\* the state of the installer and of the filesystem it works on
runVars == <<fs, nextId, faults, rmtree_follows, pc, aurora, repo, force, dry_run,
             sectorfile_dir, src_main, alias, created, todo, linked,
             log, prog, rc, raised, fsStart, hist, calls>>

vars == <<runVars, guiVars>>

(***************************************************************************)
(* Bounds                                                                  *)
(***************************************************************************)
MaxRuns == 2
MaxFaults == 1
MaxHops == 2
MaxMsgs == 3

(***************************************************************************)
(* Program constants                                                       *)
(***************************************************************************)
\* the set with one extension forgotten
FILES_EXTS_OnlyIsc == {".isc"}
FILES_EXTS_TO_LINK_ONCE == {".isc", ".clr"}
\* the relative path cut short
COnew_REL_Short == <<"Include">>
COnew_REL == <<"Include", "COnew">>
\* the priority list walked from its other end
names_Reversed == <<"SectorFile-MAIN", "SectorFile", "Sectorfile", "SectorFiles">>
names == <<"SectorFiles", "Sectorfile", "SectorFile", "SectorFile-MAIN">>
AliasNames == <<"COnew", "COnew_2">>
\* the values run returns and the values it reports as progress
RC_OK == 0
RC_REPO == 2
\* the shared-source failure reported with the code of the repo failure
RC_CONEW_AsRepo == RC_REPO
RC_CONEW == 3
\* the generic failure reported as success
RC_UNHANDLED_AsOk == RC_OK
RC_UNHANDLED == 10
COMPLETE == 100
\* the first progress report sent as 100 percent
INDETERMINATE_AsComplete == COMPLETE
INDETERMINATE == -1

(***************************************************************************)
(* Names, extensions, paths                                                *)
(***************************************************************************)
NameOrder == <<"Include", "COnew", "COnew_2", "SectorFiles", "Sectorfile",
               "SectorFile", "SectorFile-MAIN", "sub", "a.isc", "B.CLR",
               "c.txt", "old.isc", "x.dat", "Aurora.EXE", "aurora", "repo">>

Reverse(s) == [i \in 1..Len(s) |-> s[Len(s) + 1 - i]]

\* the orders in which the host may list the entries of a directory
DirOrders == {NameOrder, Reverse(NameOrder)}

\* os.path.splitext(name)[1]
splitext(n) ==
    CASE n = "a.isc"      -> ".isc"
      [] n = "old.isc"    -> ".isc"
      [] n = "B.CLR"      -> ".CLR"
      [] n = "c.txt"      -> ".txt"
      [] n = "x.dat"      -> ".dat"
      [] n = "Aurora.EXE" -> ".EXE"
      [] OTHER            -> ""

\* str.lower() on an extension
lower(e) ==
    CASE e = ".CLR" -> ".clr"
      [] e = ".EXE" -> ".exe"
      [] OTHER      -> e

\* name.lower().endswith(suffix), for names with at most one dot
endswith(n, suffix) == lower(splitext(n)) = suffix

Last(p) == p[Len(p)]
dirname(p) == SubSeq(p, 1, Len(p) - 1)
join(p, n) == Append(p, n)
IsPrefix(p, q) == Len(p) <= Len(q) /\ SubSeq(q, 1, Len(p)) = p

\* os.path.abspath: the paths of the model are absolute; "." is dropped
abspath(p) == SelectSeq(p, LAMBDA n : n # ".")

(***************************************************************************)
(* Filesystem entries and queries                                          *)
(***************************************************************************)
Dir == [k |-> "dir", id |-> 0, data |-> 0, to |-> <<>>]
File(i, d) == [k |-> "file", id |-> i, data |-> d, to |-> <<>>]
Junction(t) == [k |-> "junction", id |-> 0, data |-> 0, to |-> t]
Symlink(t) == [k |-> "symlink", id |-> 0, data |-> 0, to |-> t]

IsLinkKind(e) == e.k \in {"junction", "symlink"}

\* the entry a path resolves to once the links at its end are followed:
\* a set holding that path, or the empty set (missing, dangling, loop)
RECURSIVE ResolveN(_, _, _)
ResolveN(f, p, n) ==
    IF p = <<>> THEN {p}
    ELSE IF p \notin DOMAIN f THEN {}
    ELSE IF IsLinkKind(f[p])
         THEN IF n = 0 THEN {} ELSE ResolveN(f, f[p].to, n - 1)
    ELSE {p}

Resolve(f, p) == ResolveN(f, p, MaxHops)

lexists(f, p) == p \in DOMAIN f
exists(f, p) == Resolve(f, p) # {}
isdir(f, p) == \E r \in Resolve(f, p) : r = <<>> \/ f[r].k = "dir"
isfile(f, p) == \E r \in Resolve(f, p) : r # <<>> /\ f[r].k = "file"
islink(f, p) == p \in DOMAIN f /\ f[p].k = "symlink"

Beneath(f, p) == {q \in DOMAIN f : Len(q) > Len(p) /\ IsPrefix(p, q)}
Children(f, p) == {q \in DOMAIN f : Len(q) = Len(p) + 1 /\ IsPrefix(p, q)}

\* os.listdir in the order ord
listdir(f, p, ord) ==
    SelectSeq(ord, LAMBDA n : join(p, n) \in DOMAIN f)

\* the dirnames and filenames os.walk reports for one directory
DirNames(f, p, ord) == SelectSeq(listdir(f, p, ord), LAMBDA n : isdir(f, join(p, n)))
FileNames(f, p, ord) == SelectSeq(listdir(f, p, ord), LAMBDA n : ~isdir(f, join(p, n)))

RECURSIVE Concat(_)
Concat(ss) == IF ss = <<>> THEN <<>> ELSE Head(ss) \o Concat(Tail(ss))

\* os.walk(top): the directories visited, top-down, siblings in the order ord
RECURSIVE walk(_, _, _)
walk(f, top, ord) ==
    IF ~(top \in DOMAIN f /\ f[top].k = "dir") THEN <<>>
    ELSE LET subs == SelectSeq(DirNames(f, top, ord),
                               LAMBDA n : f[join(top, n)].k = "dir")
         IN <<top>> \o Concat([i \in 1..Len(subs) |-> walk(f, join(top, subs[i]), ord)])

\* any(f.lower().endswith('.isc') for _,_,files in os.walk(d) for f in files)
AnyIsc(f, d, ord) ==
    LET w == walk(f, d, ord)
    IN \E i \in 1..Len(w) :
         LET fn == FileNames(f, w[i], ord)
         IN \E j \in 1..Len(fn) : endswith(fn[j], ".isc")

(***************************************************************************)
(* find_sectorfile_dir                                                     *)
(***************************************************************************)
Found(p, l) == [ok |-> TRUE, path |-> p, logs |-> l]
NotFound == [ok |-> FALSE, path |-> <<>>, logs |-> <<>>]

LooksLikeSectorfile(f, d, ord) == isdir(f, join(d, "Include")) \/ AnyIsc(f, d, ord)

\* the loop over the conventional names, from index i on
RECURSIVE NamedStep(_, _, _, _, _)
NamedStep(f, root, accept_empty_named, ord, i) ==
    IF i > Len(names) THEN NotFound
    ELSE LET cand == join(root, names[i])
         IN IF isdir(f, cand)
            THEN IF LooksLikeSectorfile(f, cand, ord) THEN Found(cand, <<>>)
                 ELSE IF accept_empty_named
                      THEN Found(cand, <<[t |-> "AcceptByName", p |-> cand]>>)
                      ELSE NamedStep(f, root, accept_empty_named, ord, i + 1)
            ELSE NamedStep(f, root, accept_empty_named, ord, i + 1)

\* the final walk settling for the root when nothing matches
WalkStep_FallsBackToRoot(f, root, ord) ==
    LET w == walk(f, root, ord)
        hit(i) == \/ \E j \in 1..Len(DirNames(f, w[i], ord)) :
                         DirNames(f, w[i], ord)[j] = "Include"
                  \/ \E j \in 1..Len(FileNames(f, w[i], ord)) :
                         endswith(FileNames(f, w[i], ord)[j], ".isc")
        hits == {i \in 1..Len(w) : hit(i)}
    IN IF hits = {} THEN Found(root, <<>>)
       ELSE Found(w[CHOOSE i \in hits : \A j \in hits : i <= j], <<>>)

\* the final walk: first visited directory with an Include child or a .isc file
WalkStep(f, root, ord) ==
    LET w == walk(f, root, ord)
        hit(i) == \/ \E j \in 1..Len(DirNames(f, w[i], ord)) :
                         DirNames(f, w[i], ord)[j] = "Include"
                  \/ \E j \in 1..Len(FileNames(f, w[i], ord)) :
                         endswith(FileNames(f, w[i], ord)[j], ".isc")
        hits == {i \in 1..Len(w) : hit(i)}
    IN IF hits = {} THEN NotFound
       ELSE Found(w[CHOOSE i \in hits : \A j \in hits : i <= j], <<>>)

find_sectorfile_dir(f, root0, accept_empty_named, ord) ==
    LET root == abspath(root0)
    IN IF isdir(f, root) /\ LooksLikeSectorfile(f, root, ord)
       THEN Found(root, <<>>)
       ELSE LET named == NamedStep(f, root, accept_empty_named, ord, 1)
            IN IF named.ok THEN named ELSE WalkStep(f, root, ord)

(***************************************************************************)
(* Host calls.  Each returns [ok, fs]: whether the call succeeded and the  *)
(* filesystem it leaves.  refused = the host refuses a call that would     *)
(* otherwise succeed.                                                      *)
(***************************************************************************)
Ok(f) == [ok |-> TRUE, fs |-> f]
Fail(f) == [ok |-> FALSE, fs |-> f]

Without(f, ps) == [q \in DOMAIN f \ ps |-> f[q]]
With(f, p, e) == [q \in DOMAIN f \cup {p} |-> IF q = p THEN e ELSE f[q]]

\* os.makedirs(p, exist_ok=True)
RECURSIVE makedirs(_, _, _)
makedirs(f, p, refused) ==
    IF isdir(f, p) THEN Ok(f)
    ELSE IF lexists(f, p) \/ refused THEN Fail(f)
    ELSE LET up == makedirs(f, dirname(p), refused)
         IN IF up.ok THEN Ok(With(up.fs, p, Dir)) ELSE Fail(f)

\* os.remove(p)
remove(f, p, refused) ==
    IF lexists(f, p) /\ f[p].k # "dir" /\ ~refused
    THEN Ok(Without(f, {p})) ELSE Fail(f)

\* shutil.rmtree(p); follows = the host's rmtree walks through a junction
rmtree(f, p, refused, follows) ==
    IF ~lexists(f, p) \/ refused THEN Fail(f)
    ELSE IF f[p].k = "dir" THEN Ok(Without(f, {p} \cup Beneath(f, p)))
    ELSE IF f[p].k = "junction" /\ follows /\ isdir(f, p)
         THEN Ok(Without(f, {p} \cup UNION {Beneath(f, r) : r \in Resolve(f, p)}))
    ELSE Fail(f)

\* os.link(src, dst)
link(f, src, dst, refused) ==
    IF /\ ~refused /\ ~lexists(f, dst) /\ isdir(f, dirname(dst))
       /\ lexists(f, src) /\ f[src].k \in {"file", "symlink"}
    THEN Ok(With(f, dst, f[src])) ELSE Fail(f)

\* os.symlink(src, dst)
symlink(f, src, dst, refused) ==
    IF ~refused /\ ~lexists(f, dst) /\ isdir(f, dirname(dst))
    THEN Ok(With(f, dst, Symlink(src))) ELSE Fail(f)

_try_hardlink(f, src, dst, refused) == link(f, src, dst, refused)

_try_symlink(f, src, dst, refused) == symlink(f, src, dst, refused)

\* mklink /H dst src
_try_mklink_hard(f, src, dst, refused) == link(f, src, dst, refused)

\* mklink /J link_path target_path
_make_dir_junction(f, link_path, target_path, refused) ==
    IF ~refused /\ ~lexists(f, link_path) /\ isdir(f, dirname(link_path))
    THEN Ok(With(f, link_path, Junction(target_path))) ELSE Fail(f)

\* os.path.samefile, as shutil uses it: both exist and are the same object
samefile(f, a, b) ==
    \E ra \in Resolve(f, a), rb \in Resolve(f, b) :
        \/ ra = rb
        \/ ra # <<>> /\ rb # <<>> /\ f[ra].k = "file" /\ f[rb].k = "file"
           /\ f[ra].id = f[rb].id

\* where a write to path p lands: through the links at its end
RECURSIVE WriteTargetN(_, _, _)
WriteTargetN(f, p, n) ==
    IF lexists(f, p) /\ IsLinkKind(f[p])
    THEN IF n = 0 THEN {} ELSE WriteTargetN(f, f[p].to, n - 1)
    ELSE {p}

\* shutil.copy2(src, dst); id = the file object a newly created file gets
copy2(f, src, dst0, refused, id) ==
    LET dst == IF isdir(f, dst0) THEN join(dst0, Last(src)) ELSE dst0
    IN IF refused \/ ~isfile(f, src) \/ samefile(f, src, dst) THEN Fail(f)
       ELSE LET s == CHOOSE r \in Resolve(f, src) : TRUE
                ts == WriteTargetN(f, dst, MaxHops)
            IN IF ts = {} THEN Fail(f)
               ELSE LET t == CHOOSE r \in ts : TRUE
                    IN IF lexists(f, t)
                       THEN IF f[t].k # "file" THEN Fail(f)
                            ELSE Ok([q \in DOMAIN f |->
                                       IF f[q].k = "file" /\ f[q].id = f[t].id
                                       THEN File(f[q].id, f[s].data) ELSE f[q]])
                       ELSE IF isdir(f, dirname(t))
                            THEN Ok(With(f, t, File(id, f[s].data)))
                            ELSE Fail(f)

(***************************************************************************)
(* run: one action per step of the orchestrator                            *)
(***************************************************************************)
L(t, p) == [t |-> t, p |-> p, n |-> 0]

\* a record of one host call that removes, links or copies
C(op, src, dst, ok) == [op |-> op, src |-> src, dst |-> dst, ok |-> ok]
NoRc == 0 - 1

Count(flags) == Cardinality({i \in DOMAIN flags : flags[i]})

\* run returns code: the front end receives it and the run is recorded
Return(code, lg, exc) ==
    /\ pc' = "done"
    /\ rc' = code
    /\ log' = lg
    /\ raised' = exc
    /\ hist' = Append(hist, [aurora |-> aurora, repo |-> repo, force |-> force,
                             dry_run |-> dry_run, rc |-> code,
                             checked |-> pc \notin {"detect", "resolve", "validate"}])

\* the handler returning the code of the repo failure
Unhandled_ReturnsRepo(lg, p) == Return(RC_REPO, Append(lg, L("Unhandled", p)), TRUE)

\* except Exception as e: log "Unhandled error", return 10
Unhandled(lg, p) == Return(RC_UNHANDLED, Append(lg, L("Unhandled", p)), TRUE)

\* entry of run(aurora, repo, force, dry_run)
Invoke(a, r, fo, dr) ==
    /\ aurora' = a /\ repo' = r /\ force' = fo /\ dry_run' = dr
    /\ pc' = "detect"
    /\ log' = <<>> /\ prog' = <<>> /\ rc' = NoRc /\ raised' = FALSE
    /\ fsStart' = fs
    /\ sectorfile_dir' = <<>> /\ src_main' = <<>> /\ alias' = 1
    /\ created' = <<>> /\ todo' = <<>> /\ linked' = 0 /\ calls' = <<>>
    /\ UNCHANGED <<fs, nextId, faults, rmtree_follows, hist>>
    /\ UNCHANGED guiVars

\* the front end calls run
Call(a, r, fo, dr) == pc = "idle" /\ Invoke(a, r, fo, dr)

\* the front end calls run once more after a run has returned
CallAgain(a, r, fo, dr) ==
    pc = "done" /\ Len(hist) < MaxRuns /\ Invoke(a, r, fo, dr)

\* the install root: the directory of the executable, or the path itself
AuroraRoot(a) == IF endswith(Last(a), ".exe") THEN dirname(a) ELSE a

\* resolve the install root and discover the sectorfile folder
Detect ==
    /\ pc = "detect"
    /\ \E ord \in DirOrders :
        LET aurora_root == AuroraRoot(aurora)
            lg0 == Append(log, L("Detecting", aurora_root))
            d == find_sectorfile_dir(fs, aurora_root, TRUE, ord)
        IN IF d.ok
           THEN /\ sectorfile_dir' = d.path
                /\ log' = Append(lg0 \o d.logs, L("SectorfileRoot", d.path))
                /\ pc' = "resolve"
                /\ UNCHANGED <<rc, raised, hist>>
           ELSE /\ Unhandled(lg0, aurora_root)
                /\ UNCHANGED sectorfile_dir
    /\ UNCHANGED <<fs, nextId, faults, rmtree_follows, aurora, repo, force, dry_run,
                   src_main, alias, created, todo, linked, prog, fsStart,
                   calls>>
    /\ UNCHANGED guiVars

\* the repo failure returned without its log line
ResolveRepo_Silent ==
    /\ pc = "resolve"
    /\ LET repo_candidate1 == repo
           repo_candidate2 == join(repo, "SectorFile-MAIN")
       IN IF isdir(fs, repo_candidate1) /\ isdir(fs, join(repo_candidate1, "Include"))
          THEN /\ src_main' = repo_candidate1 /\ pc' = "validate"
               /\ UNCHANGED <<log, rc, raised, hist>>
          ELSE IF isdir(fs, repo_candidate2)
          THEN /\ src_main' = repo_candidate2 /\ pc' = "validate"
               /\ UNCHANGED <<log, rc, raised, hist>>
          ELSE /\ Return(RC_REPO, log, FALSE)
               /\ UNCHANGED src_main
    /\ UNCHANGED <<fs, nextId, faults, rmtree_follows, aurora, repo, force, dry_run,
                   sectorfile_dir, alias, created, todo, linked, prog, fsStart,
                   calls>>
    /\ UNCHANGED guiVars

\* determine src_main
ResolveRepo ==
    /\ pc = "resolve"
    /\ LET repo_candidate1 == repo
           repo_candidate2 == join(repo, "SectorFile-MAIN")
       IN IF isdir(fs, repo_candidate1) /\ isdir(fs, join(repo_candidate1, "Include"))
          THEN /\ src_main' = repo_candidate1 /\ pc' = "validate"
               /\ UNCHANGED <<log, rc, raised, hist>>
          ELSE IF isdir(fs, repo_candidate2)
          THEN /\ src_main' = repo_candidate2 /\ pc' = "validate"
               /\ UNCHANGED <<log, rc, raised, hist>>
          ELSE /\ Return(RC_REPO, Append(log, L("ErrRepo", repo)), FALSE)
               /\ UNCHANGED src_main
    /\ UNCHANGED <<fs, nextId, faults, rmtree_follows, aurora, repo, force, dry_run,
                   sectorfile_dir, alias, created, todo, linked, prog, fsStart,
                   calls>>
    /\ UNCHANGED guiVars

\* the source Include/COnew must be a directory
Validate ==
    /\ pc = "validate"
    /\ LET src_include_conew == src_main \o COnew_REL
       IN IF ~isdir(fs, src_include_conew)
          THEN Return(RC_CONEW, Append(log, L("ErrCOnew", src_include_conew)), FALSE)
          ELSE /\ pc' = "prepare"
               /\ UNCHANGED <<log, rc, raised, hist>>
    /\ UNCHANGED <<fs, nextId, faults, rmtree_follows, aurora, repo, force, dry_run,
                   sectorfile_dir, src_main, alias, created, todo, linked, prog,
                   fsStart,
                   calls>>
    /\ UNCHANGED guiVars

\* the dry-run test placed after the creation of the target directory
DryRun_AfterMakedirs ==
    /\ pc = "prepare" /\ dry_run
    /\ LET target_include_dir == join(sectorfile_dir, "Include")
           m == makedirs(fs, target_include_dir, FALSE)
       IN /\ fs' = m.fs
          /\ Return(RC_OK, log \o <<L("TargetInclude", target_include_dir),
                                    L("DryRun", <<>>),
                                    L("WouldJunction", target_include_dir),
                                    L("WouldLink", sectorfile_dir)>>, FALSE)
    /\ UNCHANGED <<nextId, faults, rmtree_follows, aurora, repo, force, dry_run,
                   sectorfile_dir, src_main, alias, created, todo, linked, prog,
                   fsStart,
                   calls>>
    /\ UNCHANGED guiVars

\* dry run: log what would be done and return 0
DryRun ==
    /\ pc = "prepare" /\ dry_run
    /\ LET target_include_dir == join(sectorfile_dir, "Include")
       IN Return(RC_OK, log \o <<L("TargetInclude", target_include_dir),
                              L("DryRun", <<>>),
                              L("WouldJunction", target_include_dir),
                              L("WouldLink", sectorfile_dir)>>, FALSE)
    /\ UNCHANGED <<fs, nextId, faults, rmtree_follows, aurora, repo, force, dry_run,
                   sectorfile_dir, src_main, alias, created, todo, linked, prog,
                   fsStart,
                   calls>>
    /\ UNCHANGED guiVars

\* create the target Include directory, report indeterminate progress and
\* enter create_conew_junctions (which ensures the directory once more)
Prepare ==
    /\ pc = "prepare" /\ ~dry_run
    /\ \E refused \in BOOLEAN :
        LET target_include_dir == join(sectorfile_dir, "Include")
            lg0 == Append(log, L("TargetInclude", target_include_dir))
            attempted == ~isdir(fs, target_include_dir) /\ ~lexists(fs, target_include_dir)
            m == makedirs(fs, target_include_dir, refused)
            m2 == makedirs(m.fs, target_include_dir, FALSE)
        IN /\ refused => attempted /\ faults > 0
           /\ faults' = IF refused THEN faults - 1 ELSE faults
           /\ IF m.ok /\ m2.ok
              THEN /\ fs' = m2.fs
                   /\ prog' = Append(prog, INDETERMINATE)
                   /\ log' = lg0
                   /\ created' = <<>> /\ alias' = 1
                   /\ pc' = "junction"
                   /\ UNCHANGED <<rc, raised, hist>>
              ELSE /\ Unhandled(lg0, target_include_dir)
                   /\ UNCHANGED <<fs, prog, created, alias>>
    /\ UNCHANGED <<nextId, rmtree_follows, aurora, repo, force, dry_run,
                   sectorfile_dir, src_main, todo, linked, fsStart,
                   calls>>
    /\ UNCHANGED guiVars

\* the conflict raised whatever force is
AliasConflict_IgnoresForce(f, link_path, fo) == exists(f, link_path)

\* the alias path exists and force is off: FileExistsError is raised
AliasConflict(f, link_path, fo) == exists(f, link_path) /\ ~fo

\* one iteration of the loop over the two alias names
JunctionStep(f, link_path, src_include_conew, fo, follows, failRm, failJ) ==
    LET present == exists(f, link_path)
        tree == isdir(f, link_path) /\ ~islink(f, link_path)
        rm == IF ~present THEN Ok(f)
              ELSE IF tree
                   THEN rmtree(f, link_path, failRm, follows)
                   ELSE remove(f, link_path, failRm)
        j == _make_dir_junction(rm.fs, link_path, src_include_conew, failJ)
    IN [raise |-> AliasConflict(f, link_path, fo),
        fs |-> IF AliasConflict(f, link_path, fo) THEN f ELSE j.fs,
        ok |-> j.ok,
        calls |-> IF AliasConflict(f, link_path, fo) THEN <<>>
                  ELSE (IF present
                        THEN <<C(IF tree THEN "rmtree" ELSE "remove", <<>>,
                                 link_path, rm.ok)>>
                        ELSE <<>>)
                       \o <<C("mklinkJ", src_include_conew, link_path, j.ok)>>,
        logs |-> (IF rm.ok THEN <<>> ELSE <<L("WarnRemoveAlias", link_path)>>)
                 \o <<L(IF j.ok THEN "JunctionCreated" ELSE "ErrJunction", link_path)>>]

CreateJunction ==
    /\ pc = "junction"
    /\ \E failRm, failJ \in BOOLEAN :
        LET link_path == join(join(sectorfile_dir, "Include"), AliasNames[alias])
            src_include_conew == src_main \o COnew_REL
            s == JunctionStep(fs, link_path, src_include_conew, force,
                              rmtree_follows, failRm, failJ)
            n == Count(<<failRm, failJ>>)
        IN /\ n <= faults
           /\ failRm => exists(fs, link_path) /\ force
           /\ failJ => ~s.raise
           /\ faults' = faults - n
           /\ IF s.raise
              THEN /\ Unhandled(log, link_path)
                   /\ UNCHANGED <<fs, created, alias, todo, linked, calls>>
              ELSE /\ fs' = s.fs
                   /\ log' = log \o s.logs
                   /\ calls' = calls \o s.calls
                   /\ created' = IF s.ok THEN Append(created, link_path) ELSE created
                   /\ UNCHANGED <<rc, raised, hist>>
                   /\ IF alias < Len(AliasNames)
                      THEN /\ alias' = alias + 1
                           /\ UNCHANGED <<pc, todo, linked>>
                      ELSE /\ pc' = "list" /\ UNCHANGED <<alias, todo, linked>>
    /\ UNCHANGED <<nextId, rmtree_follows, aurora, repo, force, dry_run,
                   sectorfile_dir, src_main, prog, fsStart>>
    /\ UNCHANGED guiVars

\* link_top_level_files_once: count = 0 and the listing of src_main
ListFiles ==
    /\ pc = "list"
    /\ \E ord \in DirOrders : todo' = listdir(fs, src_main, ord)
    /\ linked' = 0
    /\ pc' = "link"
    /\ UNCHANGED <<fs, nextId, faults, rmtree_follows, aurora, repo, force, dry_run,
                   sectorfile_dir, src_main, alias, created, log, prog, rc, raised,
                   fsStart, hist,
                   calls>>
    /\ UNCHANGED guiVars

\* the symbolic link tried before the hard link
_create_file_link_SymlinkFirst(f, src, dst, failRm, failH, failS, failM) ==
    LET present == exists(f, dst)
        rm == IF present THEN remove(f, dst, failRm) ELSE Ok(f)
        warn == IF rm.ok THEN <<>> ELSE <<L("WarnRemoveLink", dst)>>
        h == _try_hardlink(rm.fs, src, dst, failH)
        sy == _try_symlink(rm.fs, src, dst, failS)
        mk == _try_mklink_hard(rm.fs, src, dst, failM)
        c0 == IF present THEN <<C("remove", <<>>, dst, rm.ok)>> ELSE <<>>
        c1 == Append(c0, C("symlink", src, dst, sy.ok))
        c2 == Append(c1, C("link", src, dst, h.ok))
        c3 == Append(c2, C("mklinkH", src, dst, mk.ok))
    IN IF sy.ok THEN [ok |-> TRUE, fs |-> sy.fs, tried |-> 1, calls |-> c1,
                      logs |-> Append(warn, L("Symlink", dst))]
       ELSE IF h.ok THEN [ok |-> TRUE, fs |-> h.fs, tried |-> 2, calls |-> c2,
                          logs |-> Append(warn, L("HardLink", dst))]
       ELSE IF mk.ok THEN [ok |-> TRUE, fs |-> mk.fs, tried |-> 3, calls |-> c3,
                           logs |-> Append(warn, L("MklinkH", dst))]
       ELSE [ok |-> FALSE, fs |-> rm.fs, tried |-> 3, calls |-> c3, logs |-> warn]

\* _create_file_link(src, dst): best-effort removal, then the three mechanisms
_create_file_link(f, src, dst, failRm, failH, failS, failM) ==
    LET present == exists(f, dst)
        rm == IF present THEN remove(f, dst, failRm) ELSE Ok(f)
        warn == IF rm.ok THEN <<>> ELSE <<L("WarnRemoveLink", dst)>>
        h == _try_hardlink(rm.fs, src, dst, failH)
        sy == _try_symlink(rm.fs, src, dst, failS)
        mk == _try_mklink_hard(rm.fs, src, dst, failM)
        c0 == IF present THEN <<C("remove", <<>>, dst, rm.ok)>> ELSE <<>>
        c1 == Append(c0, C("link", src, dst, h.ok))
        c2 == Append(c1, C("symlink", src, dst, sy.ok))
        c3 == Append(c2, C("mklinkH", src, dst, mk.ok))
    IN IF h.ok THEN [ok |-> TRUE, fs |-> h.fs, tried |-> 1, calls |-> c1,
                     logs |-> Append(warn, L("HardLink", dst))]
       ELSE IF sy.ok THEN [ok |-> TRUE, fs |-> sy.fs, tried |-> 2, calls |-> c2,
                           logs |-> Append(warn, L("Symlink", dst))]
       ELSE IF mk.ok THEN [ok |-> TRUE, fs |-> mk.fs, tried |-> 3, calls |-> c3,
                           logs |-> Append(warn, L("MklinkH", dst))]
       ELSE [ok |-> FALSE, fs |-> rm.fs, tried |-> 3, calls |-> c3, logs |-> warn]

\* the skip test lost: an existing destination is always replaced
SkipExisting_Never(f, dst, fo) == FALSE

\* the destination exists and force is off: the file is skipped
SkipExisting(f, dst, fo) == exists(f, dst) /\ ~fo

\* the copy made first, the link mechanisms only when it fails
LinkStep_CopyFirst(f, srcm, sfdir, name, fo, r, id) ==
    LET src_path == join(srcm, name)
        dst == join(sfdir, name)
        skip(lg) == [fs |-> f, logs |-> lg, counted |-> FALSE, copied |-> FALSE,
                     attempt |-> 0, calls |-> <<>>]
    IN IF ~isfile(f, src_path) THEN skip(<<>>)
       ELSE IF lower(splitext(name)) \notin FILES_EXTS_TO_LINK_ONCE THEN skip(<<>>)
       ELSE IF SkipExisting(f, dst, fo) THEN skip(<<L("Skipping", dst)>>)
       ELSE LET rm == IF exists(f, dst) THEN remove(f, dst, r[1]) ELSE Ok(f)
                warn == IF rm.ok THEN <<>> ELSE <<L("WarnRemove", dst)>>
                cp == copy2(rm.fs, src_path, dst, r[6], id)
                c == _create_file_link(rm.fs, src_path, dst, r[2], r[3], r[4], r[5])
                c0 == IF exists(f, dst) THEN <<C("remove", <<>>, dst, rm.ok)>> ELSE <<>>
            IN IF cp.ok
               THEN [fs |-> cp.fs, logs |-> Append(warn, L("Copied", dst)),
                     counted |-> TRUE, copied |-> TRUE, attempt |-> 4,
                     calls |-> Append(c0, C("copy2", src_path, dst, TRUE))]
               ELSE [fs |-> c.fs, counted |-> TRUE, copied |-> FALSE,
                     attempt |-> c.tried,
                     calls |-> Append(c0, C("copy2", src_path, dst, FALSE)) \o c.calls,
                     logs |-> Append(warn, L("ErrCopy", dst)) \o c.logs]

\* one iteration of the loop over os.listdir(src_main); r = the host's refusals
\* <<remove, remove in _create_file_link, hard link, symlink, mklink /H, copy>>
LinkStep(f, srcm, sfdir, name, fo, r, id) ==
    LET src_path == join(srcm, name)
        dst == join(sfdir, name)
        skip(lg) == [fs |-> f, logs |-> lg, counted |-> FALSE, copied |-> FALSE,
                     attempt |-> 0, calls |-> <<>>]
    IN IF ~isfile(f, src_path) THEN skip(<<>>)
       ELSE IF lower(splitext(name)) \notin FILES_EXTS_TO_LINK_ONCE THEN skip(<<>>)
       ELSE IF SkipExisting(f, dst, fo) THEN skip(<<L("Skipping", dst)>>)
       ELSE LET rm == IF exists(f, dst) THEN remove(f, dst, r[1]) ELSE Ok(f)
                warn == IF rm.ok THEN <<>> ELSE <<L("WarnRemove", dst)>>
                c == _create_file_link(rm.fs, src_path, dst, r[2], r[3], r[4], r[5])
                cp == copy2(c.fs, src_path, dst, r[6], id)
                c0 == IF exists(f, dst) THEN <<C("remove", <<>>, dst, rm.ok)>> ELSE <<>>
            IN IF c.ok
               THEN [fs |-> c.fs, logs |-> warn \o c.logs, counted |-> TRUE,
                     copied |-> FALSE, attempt |-> c.tried, calls |-> c0 \o c.calls]
               ELSE [fs |-> cp.fs, counted |-> TRUE, copied |-> cp.ok, attempt |-> 4,
                     calls |-> c0 \o Append(c.calls, C("copy2", src_path, dst, cp.ok)),
                     logs |-> warn \o c.logs
                              \o <<L(IF cp.ok THEN "Copied" ELSE "ErrCopy", dst)>>]

\* a refusal is drawn only for a call that is made and would otherwise succeed
Effective(f, srcm, sfdir, name, fo, r, id) ==
    \A i \in 1..6 : r[i] =>
        LET without == [r EXCEPT ![i] = FALSE]
        IN LinkStep(f, srcm, sfdir, name, fo, without, id)
             # LinkStep(f, srcm, sfdir, name, fo, r, id)

LinkFile ==
    /\ pc = "link" /\ todo # <<>>
    /\ \E r \in [1..6 -> BOOLEAN] :
        LET s == LinkStep(fs, src_main, sectorfile_dir, Head(todo), force, r, nextId)
        IN /\ Count(r) <= faults
           /\ Effective(fs, src_main, sectorfile_dir, Head(todo), force, r, nextId)
           /\ faults' = faults - Count(r)
           /\ fs' = s.fs
           /\ log' = log \o s.logs
           /\ calls' = calls \o s.calls
           /\ linked' = IF s.counted THEN linked + 1 ELSE linked
           /\ nextId' = IF s.copied THEN nextId + 1 ELSE nextId
    /\ todo' = Tail(todo)
    /\ UNCHANGED <<rmtree_follows, pc, aurora, repo, force, dry_run, sectorfile_dir,
                   src_main, alias, created, prog, rc, raised, fsStart, hist>>
    /\ UNCHANGED guiVars

\* log the count, report 100 and return 0
Finish ==
    /\ pc = "link" /\ todo = <<>>
    /\ prog' = Append(prog, COMPLETE)
    /\ Return(RC_OK, log \o <<[t |-> "Linked", p |-> <<>>, n |-> linked],
                          L("Done", <<>>)>>, FALSE)
    /\ UNCHANGED <<fs, nextId, faults, rmtree_follows, aurora, repo, force, dry_run,
                   sectorfile_dir, src_main, alias, created, todo, linked, fsStart,
                   calls>>
    /\ UNCHANGED guiVars

(***************************************************************************)
(* Initial filesystems                                                     *)
(***************************************************************************)
Empty == [q \in {} |-> Dir]
Root == <<"aurora">>
Repo == <<"repo">>
SF == <<"aurora", "SectorFiles">>
SrcCOnew == <<"repo", "SectorFile-MAIN", "Include", "COnew">>

\* a source main folder: Include/COnew with a payload file, two recognized
\* files, one other file and a directory whose name carries a recognized
\* extension
MainTree(base) ==
    (base :> Dir) @@ (join(base, "Include") :> Dir)
    @@ ((base \o COnew_REL) :> Dir)
    @@ (join(base \o COnew_REL, "x.dat") :> File(1, 1))
    @@ (join(base, "a.isc") :> File(2, 2))
    @@ (join(base, "B.CLR") :> File(3, 3))
    @@ (join(base, "c.txt") :> File(4, 4))
    @@ (join(base, "old.isc") :> Dir)

RepoKinds == {"main", "self", "incmain", "nocon", "empty", "absent"}

RepoTree(v) ==
    CASE v = "main"    -> (Repo :> Dir) @@ MainTree(join(Repo, "SectorFile-MAIN"))
      [] v = "self"    -> MainTree(Repo)
      [] v = "incmain" -> (Repo :> Dir) @@ (join(Repo, "Include") :> Dir)
                          @@ MainTree(join(Repo, "SectorFile-MAIN"))
      [] v = "nocon"   -> (Repo :> Dir) @@ (join(Repo, "SectorFile-MAIN") :> Dir)
                          @@ (<<"repo", "SectorFile-MAIN", "Include">> :> Dir)
                          @@ (<<"repo", "SectorFile-MAIN", "a.isc">> :> File(2, 2))
      [] v = "empty"   -> (Repo :> Dir)
      [] OTHER         -> Empty

Named(d, v) ==
    CASE v = "empty"   -> (d :> Dir)
      [] v = "inc"     -> (d :> Dir) @@ (join(d, "Include") :> Dir)
      [] v = "incfile" -> (d :> Dir) @@ (join(d, "Include") :> File(10, 10))
      [] v = "clr"     -> (d :> Dir) @@ (join(d, "B.CLR") :> File(15, 15))
      [] OTHER         -> Empty

SubTree(v) ==
    CASE v = "inc" -> (join(Root, "sub") :> Dir) @@ (<<"aurora", "sub", "Include">> :> Dir)
      [] v = "isc" -> (join(Root, "sub") :> Dir) @@ (<<"aurora", "sub", "a.isc">> :> File(11, 11))
      [] v = "txt" -> (join(Root, "sub") :> Dir) @@ (<<"aurora", "sub", "c.txt">> :> File(11, 11))
                      @@ (<<"aurora", "sub", "Include">> :> File(10, 10))
                      @@ (<<"aurora", "sub", "old.isc">> :> Dir)
      [] v = "clr" -> (join(Root, "sub") :> Dir) @@ (<<"aurora", "sub", "B.CLR">> :> File(15, 15))
      [] OTHER     -> Empty

\* what a sectorfile folder may already hold at the destinations
PreAlias(n, v, id) ==
    LET p == join(join(SF, "Include"), n)
    IN CASE v = "dir"      -> (p :> Dir) @@ (join(p, "x.dat") :> File(id, id))
         [] v = "junction" -> (p :> Junction(SrcCOnew))
         [] v = "file"     -> (p :> File(id, id))
         [] OTHER          -> Empty

PreFile(n, v, id, srcid) ==
    LET p == join(SF, n)
    IN CASE v = "file"     -> (p :> File(id, id))
         [] v = "hardlink" -> (p :> File(srcid, srcid))
         [] v = "dangling" -> (p :> Symlink(<<"aurora", "gone">>))
         [] OTHER          -> Empty

NoPre == [conew |-> "none", conew2 |-> "none", a |-> "none", b |-> "none"]

InstallTree(t) ==
    IF ~t.root THEN Empty
    ELSE (Root :> Dir)
         @@ (IF t.rootInc THEN (join(Root, "Include") :> Dir) ELSE Empty)
         @@ Named(SF, t.sf)
         @@ Named(join(Root, "SectorFile"), t.sf2)
         @@ SubTree(t.sub)
         @@ PreAlias("COnew", t.pre.conew, 12)
         @@ PreAlias("COnew_2", t.pre.conew2, 13)
         @@ PreFile("a.isc", t.pre.a, 14, 2)
         @@ PreFile("B.CLR", t.pre.b, 15, 3)

Plain == [root |-> TRUE, rootInc |-> FALSE, sf |-> "inc", sf2 |-> "none",
          sub |-> "none", pre |-> NoPre]

\* install trees that differ in what discovery looks at
DiscTrees ==
    {[root |-> TRUE, rootInc |-> ri, sf |-> a, sf2 |-> b, sub |-> c, pre |-> NoPre] :
        ri \in BOOLEAN, a \in {"none", "empty", "inc", "incfile"},
        b \in {"none", "empty", "inc"}, c \in {"none", "inc", "isc"}}
    \cup {[root |-> FALSE, rootInc |-> FALSE, sf |-> "none", sf2 |-> "none",
            sub |-> "none", pre |-> NoPre]}

\* install trees that differ in what already exists at the destinations
PreTrees ==
    {[Plain EXCEPT !.pre = [conew |-> c1, conew2 |-> c2, a |-> fa, b |-> fb]] :
        c1 \in {"none", "dir", "junction", "file"}, c2 \in {"none", "dir", "junction"},
        fa \in {"none", "file", "hardlink", "dangling"}, fb \in {"none", "file"}}

NoRoot == [Plain EXCEPT !.root = FALSE, !.sf = "none"]

\* install trees without a marker: only other files, a file named Include,
\* a directory named like a recognized file, or only a .clr file
BareTrees ==
    {[Plain EXCEPT !.sf = a, !.sub = c] :
        a \in {"none", "clr"}, c \in {"txt", "clr"}}

Scenarios ==
    {[inst |-> t, rp |-> "main"] : t \in DiscTrees}
    \cup {[inst |-> NoRoot, rp |-> "empty"]}
    \cup {[inst |-> Plain, rp |-> v] : v \in RepoKinds}
    \cup {[inst |-> t, rp |-> "main"] : t \in PreTrees}
    \cup {[inst |-> t, rp |-> "main"] : t \in BareTrees}

AuroraArgs == {Root, join(Root, "Aurora.EXE"), SF, join(Repo, "SectorFile-MAIN")}
RepoArgs == {Repo}

\* the states run may be called in: one of the scenarios scs, and a host
\* that may refuse up to budget calls
InitOf(scs, budget) ==
    /\ \E sc \in scs : fs = InstallTree(sc.inst) @@ RepoTree(sc.rp)
    /\ rmtree_follows \in BOOLEAN
    /\ nextId = 20
    /\ faults = budget
    /\ pc = "idle"
    /\ aurora = <<>> /\ repo = <<>> /\ force = FALSE /\ dry_run = FALSE
    /\ sectorfile_dir = <<>> /\ src_main = <<>> /\ alias = 1
    /\ created = <<>> /\ todo = <<>> /\ linked = 0
    /\ log = <<>> /\ prog = <<>> /\ rc = NoRc /\ raised = FALSE
    /\ fsStart = fs
    /\ hist = <<>> /\ calls = <<>>
    /\ _queue = <<>> /\ _thread = "none" /\ poller = "off"
    /\ widget = <<>> /\ emitted = <<>>
    /\ ui = [mode |-> "determinate", running |-> FALSE, value |-> 0,
             exec_btn |-> "normal"]

InitWith(scs) == InitOf(scs, MaxFaults)

Init == InitWith(Scenarios)

Steps ==
    \/ Detect
    \/ ResolveRepo
    \/ Validate
    \/ DryRun
    \/ Prepare
    \/ CreateJunction
    \/ ListFiles
    \/ LinkFile
    \/ Finish

Next ==
    \/ \E a \in AuroraArgs, r \in RepoArgs, fo \in BOOLEAN, dr \in BOOLEAN :
          Call(a, r, fo, dr)
    \/ Steps

Spec == Init /\ [][Next]_vars

\* two runs in a row: a second specification, over a few trees
TwiceScenarios ==
    {[inst |-> Plain, rp |-> "main"], [inst |-> Plain, rp |-> "self"],
     [inst |-> [Plain EXCEPT !.sf2 = "inc"], rp |-> "main"]}

InitTwice == InitWith(TwiceScenarios)

NextTwice ==
    \/ \E a \in AuroraArgs, r \in RepoArgs, fo \in BOOLEAN, dr \in BOOLEAN :
          Call(a, r, fo, dr)
    \/ \E a \in AuroraArgs, r \in RepoArgs, fo \in BOOLEAN, dr \in BOOLEAN :
          CallAgain(a, r, fo, dr)
    \/ Steps

SpecTwice == InitTwice /\ [][NextTwice]_vars

(***************************************************************************)
(* The window (src/src/gui.py): Execute starts run on a worker thread whose *)
(* callbacks enqueue messages, and schedules _poll on the Tk thread.  The   *)
(* worker's run is kept abstract here: it delivers up to MaxMsgs log and    *)
(* progress messages and then its return code (run catches every Exception, *)
(* so the worker's error branch is never taken).  The two threads           *)
(* interleave between any two of their steps.                               *)
(***************************************************************************)
Msg(t, payload) == [t |-> t, payload |-> payload]

\* threading.Thread.is_alive()
is_alive(t) == t \in {"run", "exiting"}

\* self._queue.put(m), from the worker thread
put(m) == _queue' = Append(_queue, m) /\ emitted' = Append(emitted, m)

\* GUI.execute with both paths filled in
Execute ==
    /\ _thread = "none" /\ poller = "off" /\ ui.exec_btn = "normal"
    /\ widget' = <<>>
    /\ ui' = [ui EXCEPT !.exec_btn = "disabled", !.mode = "indeterminate",
                        !.running = TRUE]
    /\ _thread' = "run"
    /\ poller' = "scheduled"
    /\ UNCHANGED <<_queue, emitted>>
    /\ UNCHANGED runVars

\* log_cb(msg), called by run on the worker thread
WorkerLog ==
    /\ _thread = "run" /\ Len(emitted) < MaxMsgs
    /\ put(Msg("log", Len(emitted) + 1))
    /\ UNCHANGED <<_thread, poller, widget, ui>>
    /\ UNCHANGED runVars

\* prog_cb(pct), called by run on the worker thread
WorkerProg(pct) ==
    /\ _thread = "run" /\ Len(emitted) < MaxMsgs
    /\ put(Msg("prog", pct))
    /\ UNCHANGED <<_thread, poller, widget, ui>>
    /\ UNCHANGED runVars

\* run has returned code: the worker enqueues it and is about to end
WorkerDone(code) ==
    /\ _thread = "run"
    /\ put(Msg("done", code))
    /\ _thread' = "exiting"
    /\ UNCHANGED <<poller, widget, ui>>
    /\ UNCHANGED runVars

\* the worker function returns: the thread is no longer alive
ThreadExit ==
    /\ _thread = "exiting"
    /\ _thread' = "dead"
    /\ UNCHANGED <<_queue, poller, widget, ui, emitted>>
    /\ UNCHANGED runVars

\* the timer set by root.after fires: _poll starts
PollFire ==
    /\ poller = "scheduled"
    /\ poller' = "drain"
    /\ UNCHANGED <<_queue, _thread, widget, ui, emitted>>
    /\ UNCHANGED runVars

\* one turn of the loop of _poll: get_nowait returns a message
PollGet ==
    /\ poller = "drain" /\ _queue # <<>>
    /\ LET m == Head(_queue)
       IN /\ _queue' = Tail(_queue)
          /\ widget' = IF m.t \in {"log", "done", "error"}
                       THEN Append(widget, m) ELSE widget
          /\ ui' = IF m.t = "prog"
                   THEN IF m.payload = INDETERMINATE
                        THEN [ui EXCEPT !.mode = "indeterminate", !.running = TRUE]
                        ELSE [ui EXCEPT !.mode = "determinate", !.running = FALSE,
                                        !.value = m.payload]
                   ELSE IF m.t \in {"done", "error"}
                        THEN [ui EXCEPT !.running = FALSE, !.exec_btn = "normal"]
                        ELSE ui
    /\ UNCHANGED <<_thread, poller, emitted>>
    /\ UNCHANGED runVars

\* get_nowait raises queue.Empty: the loop of _poll is left
PollEmpty ==
    /\ poller = "drain" /\ _queue = <<>>
    /\ poller' = "check"
    /\ UNCHANGED <<_queue, _thread, widget, ui, emitted>>
    /\ UNCHANGED runVars

\* the end of _poll: poll again only while the thread is alive
PollCheck ==
    /\ poller = "check"
    /\ IF _thread # "none" /\ is_alive(_thread)
       THEN poller' = "scheduled" /\ UNCHANGED ui
       ELSE /\ poller' = "off"
            /\ ui' = [ui EXCEPT !.running = FALSE, !.exec_btn = "normal"]
    /\ UNCHANGED <<_queue, _thread, widget, emitted>>
    /\ UNCHANGED runVars

InitGui == InitOf({[inst |-> NoRoot, rp |-> "absent"]}, 0)

NextGui ==
    \/ Execute
    \/ WorkerLog
    \/ \E pct \in {INDETERMINATE, COMPLETE} : WorkerProg(pct)
    \/ \E code \in {RC_OK, RC_REPO, RC_CONEW, RC_UNHANDLED} : WorkerDone(code)
    \/ ThreadExit
    \/ PollFire
    \/ PollGet
    \/ PollEmpty
    \/ PollCheck

SpecGui == InitGui /\ [][NextGui]_vars

\* a host that refuses several calls of one run: a third specification, over
\* a few trees, so that every link mechanism and the copy can fail for one file
FaultyScenarios ==
    {[inst |-> Plain, rp |-> "main"],
     [inst |-> [Plain EXCEPT !.pre = [NoPre EXCEPT !.a = "file"]], rp |-> "main"],
     [inst |-> [Plain EXCEPT !.pre = [NoPre EXCEPT !.a = "dangling", !.conew = "dir"]],
      rp |-> "main"]}

InitFaulty == InitOf(FaultyScenarios, MaxFaults + 2)

SpecFaulty == InitFaulty /\ [][Next]_vars

(***************************************************************************)
(* Properties                                                              *)
(***************************************************************************)
Logged(t) == \E i \in 1..Len(log) : log[i].t = t
LoggedAt(ts, p) == \E i \in 1..Len(log) : log[i].t \in ts /\ log[i].p = p

\* the checks of the run in progress, read off the filesystem it started on
DiscoveryOk ==
    \E ord \in DirOrders : find_sectorfile_dir(fsStart, AuroraRoot(aurora), TRUE, ord).ok
RepoHasInclude == isdir(fsStart, repo) /\ isdir(fsStart, join(repo, "Include"))
RepoHasMain == isdir(fsStart, join(repo, "SectorFile-MAIN"))
MainFolder == IF RepoHasInclude THEN repo ELSE join(repo, "SectorFile-MAIN")
SharedSourceOk == isdir(fsStart, MainFolder \o <<"Include", "COnew">>)
ChecksPass == DiscoveryOk /\ (RepoHasInclude \/ RepoHasMain) /\ SharedSourceOk

\* the destinations of the run in progress
AliasDest == {sectorfile_dir \o <<"Include", n>> : n \in {"COnew", "COnew_2"}}
SameNamedDest ==
    IF RepoHasInclude \/ RepoHasMain
    THEN {join(sectorfile_dir, Last(q)) : q \in Children(fsStart, MainFolder)}
    ELSE {}
RecognizedDest ==
    {d \in SameNamedDest :
        /\ isfile(fsStart, join(MainFolder, Last(d)))
        /\ lower(splitext(Last(d))) \in {".isc", ".clr"}}
Kept(p) == lexists(fsStart, p) => lexists(fs, p) /\ fs[p] = fsStart[p]

\* the install path lies outside the repository
Disjoint == Head(aurora) # Head(repo)

WarnOrError ==
    {"WarnRemoveAlias", "WarnRemove", "WarnRemoveLink", "ErrJunction", "ErrCopy",
     "ErrRepo", "ErrCOnew", "Unhandled"}

\* C1: when the checks pass, dry_run and force are off and an alias path
\* already exists under the target Include directory (of an install tree
\* outside the repository), the conflict is handled locally,
\* link_top_level_files_once still runs and run returns 0.
C1_AliasConflictContinues ==
    (/\ pc = "done" /\ ~dry_run /\ ~force /\ ChecksPass /\ Disjoint
     /\ \E d \in AliasDest : exists(fsStart, d))
    => rc = 0 /\ Logged("Linked")

\* C2: with no refusal by the host and an install tree outside the
\* repository, a second run(force, not dry) with the same arguments as a
\* first one whose checks passed leaves the filesystem as the first run left
\* it, logs no warning or error line and returns 0.
C2_ForceIdempotent ==
    (/\ pc = "done" /\ Len(hist) = 2 /\ faults = MaxFaults /\ Disjoint
     /\ force /\ ~dry_run /\ hist[1].force /\ ~hist[1].dry_run
     /\ hist[1].aurora = aurora /\ hist[1].repo = repo /\ hist[1].checked)
    => /\ fs = fsStart
       /\ rc = 0
       /\ \A i \in 1..Len(log) : log[i].t \notin WarnOrError

\* C3: a dry run changes no filesystem entry, whatever force is, and returns
\* 0 when discovery and both structural checks pass.
C3_DryRunMutationFree ==
    (pc # "idle" /\ dry_run) =>
        /\ fs = fsStart
        /\ (pc = "done" /\ ChecksPass) => rc = 0

C3_Witness == pc = "done" /\ dry_run /\ force /\ ChecksPass /\ Logged("WouldLink")

\* C4: in a run without force every entry that existed at a destination path
\* when the run started (the alias paths and what lies beneath them, the
\* same-named entries of the sectorfile folder) is still there, unchanged.
C4_NoForceKeepsExisting ==
    (pc # "idle" /\ ~force) =>
        IF sectorfile_dir = <<>> THEN fs = fsStart
        ELSE \A p \in AliasDest \cup SameNamedDest
                      \cup UNION {Beneath(fsStart, d) : d \in AliasDest} : Kept(p)

C4_Witness ==
    /\ pc = "done" /\ ~force /\ ~dry_run /\ rc = 0 /\ Logged("Skipping")
    /\ \E p \in RecognizedDest : lexists(fsStart, p)

\* C5: with no refusal by the host and an install tree outside the
\* repository, a run without force and not dry whose checks pass logs a skip
\* or conflict line for every destination that existed when it started.
C5_EveryConflictReported ==
    (/\ pc = "done" /\ ~force /\ ~dry_run /\ ChecksPass
     /\ faults = MaxFaults /\ Disjoint) =>
        \A p \in AliasDest \cup RecognizedDest :
            exists(fsStart, p) => LoggedAt({"Skipping", "Unhandled"}, p)

ConventionalNames == <<"SectorFiles", "Sectorfile", "SectorFile", "SectorFile-MAIN">>
InstallRoot == AuroraRoot(aurora)
NamedWithInclude ==
    {join(InstallRoot, ConventionalNames[i]) : i \in
        {j \in 1..4 : isdir(fsStart, InstallRoot \o <<ConventionalNames[j], "Include">>)}}
IscBelow(d) ==
    \E q \in Beneath(fsStart, d) : ~isdir(fsStart, q) /\ endswith(Last(q), ".isc")

\* C6 as stated: whenever the root holds a directory with a conventional
\* name that holds Include, discovery returns such a directory.
C6_NamedFolderAlways ==
    (pc \notin {"idle", "detect"} /\ NamedWithInclude # {})
    => sectorfile_dir \in NamedWithInclude

\* C6 as amended: when the root itself holds no Include directory and no
\* .isc file anywhere beneath it, and no conventional name earlier in the
\* priority list is a directory under the root, discovery returns the
\* conventionally named directory that holds Include.
C6_NamedFolderWhenFirst ==
    pc \notin {"idle", "detect"} =>
        \A i \in 1..4 :
            (/\ isdir(fsStart, InstallRoot \o <<ConventionalNames[i], "Include">>)
             /\ ~isdir(fsStart, join(InstallRoot, "Include"))
             /\ ~IscBelow(InstallRoot)
             /\ \A j \in 1..(i - 1) : ~isdir(fsStart, join(InstallRoot, ConventionalNames[j])))
            => sectorfile_dir = join(InstallRoot, ConventionalNames[i])

C6_Witness ==
    /\ pc = "resolve"
    /\ sectorfile_dir = <<"aurora", "SectorFile">>
    /\ isdir(fsStart, <<"aurora", "SectorFile", "Include">>)
    /\ isdir(fsStart, <<"aurora", "sub", "Include">>)

\* C7: when discovery succeeds, a repo path with neither Include nor
\* SectorFile-MAIN makes run return 2, and a resolved main folder whose
\* Include/COnew is not a directory makes it return 3; a run returning 2 or 3
\* has changed no filesystem entry and reported no progress.
C7_StructuralFailuresClean ==
    pc = "done" =>
        /\ (DiscoveryOk /\ ~RepoHasInclude /\ ~RepoHasMain) => rc = 2
        /\ (DiscoveryOk /\ (RepoHasInclude \/ RepoHasMain) /\ ~SharedSourceOk) => rc = 3
        /\ rc \in {2, 3} => fs = fsStart /\ prog = <<>>

C7_Witness ==
    /\ pc = "done" /\ rc = 3 /\ RepoHasInclude /\ RepoHasMain /\ ~dry_run
    /\ fs = fsStart /\ prog = <<>>

\* the number of steps a run may still take, at most
StepsLeft ==
    CASE pc = "detect"   -> 100
      [] pc = "resolve"  -> 99
      [] pc = "validate" -> 98
      [] pc = "prepare"  -> 97
      [] pc = "junction" -> 90 - alias
      [] pc = "list"     -> 50
      [] pc = "link"     -> 1 + Len(todo)
      [] OTHER           -> 0

\* C8: every step of a run brings its return closer (so the run terminates);
\* nothing is returned before that; the run returns 0, 2, 3 or 10, and 10
\* exactly when a step raised, the exception being caught inside run.
C8_ClosedOutcomes ==
    [][/\ pc \notin {"idle", "done"} =>
             /\ StepsLeft' < StepsLeft /\ StepsLeft' >= 0
             /\ rc = NoRc /\ ~raised
       /\ pc' = "done" => rc' \in {0, 2, 3, 10} /\ (rc' = 10 <=> raised')]_vars

C8_Witness == pc = "done" /\ rc = 10 /\ raised /\ sectorfile_dir # <<>> /\ Disjoint

\* C9: progress is reported at most twice, first -1 and before any link
\* exists, then 100 and only once both linking steps are over and the run
\* returns 0; dry runs and runs that return 2, 3 or fail discovery report none.
C9_ProgressProtocol ==
    /\ Len(prog) <= 2
    /\ Len(prog) >= 1 => prog[1] = -1
    /\ Len(prog) = 2 =>
          /\ prog[2] = 100 /\ pc = "done" /\ rc = 0
          /\ alias = 2 /\ todo = <<>> /\ Logged("Linked")
          /\ LoggedAt({"JunctionCreated", "ErrJunction"}, sectorfile_dir \o <<"Include", "COnew">>)
          /\ LoggedAt({"JunctionCreated", "ErrJunction"}, sectorfile_dir \o <<"Include", "COnew_2">>)
    /\ (pc # "idle" /\ prog = <<>>) =>
          \A p \in DOMAIN fs : IF lexists(fsStart, p) THEN fs[p] = fsStart[p]
                                                     ELSE fs[p].k = "dir"
    /\ (pc = "done" /\ rc = 0 /\ ~dry_run) => prog = <<-1, 100>>
    /\ prog # <<>> => ~dry_run /\ rc \notin {2, 3} /\ (pc = "done" => DiscoveryOk)

C9_Witness == pc = "done" /\ prog = <<-1, 100>> /\ Logged("HardLink") /\ Disjoint

\* C10: whenever discovery fails for the install root, run returns 10,
\* also when the repo path is structurally invalid.
C10_DiscoveryFailureIsGeneric ==
    (pc = "done" /\ ~DiscoveryOk) => rc = 10

C10_Witness ==
    /\ pc = "done" /\ ~DiscoveryOk /\ ~RepoHasInclude /\ ~RepoHasMain
    /\ rc = 10 /\ aurora = <<"aurora">>

\* the premise of C11 for root in filesystem f: no directory with a
\* conventional name directly under root, and beneath root no Include
\* directory and no file (non-directory entry) with extension .isc or .clr
NoMarker(f, root) ==
    /\ \A i \in 1..4 : ~isdir(f, join(root, ConventionalNames[i]))
    /\ \A q \in Beneath(f, root) :
          /\ ~(Last(q) = "Include" /\ isdir(f, q))
          /\ ~(~isdir(f, q) /\ lower(splitext(Last(q))) \in {".isc", ".clr"})

\* C11: for a root (existing or not) with no conventionally named child
\* directory, no Include directory and no .isc or .clr file beneath it,
\* find_sectorfile_dir finds nothing, whatever the listing order and
\* accept_empty_named are; run then has no sectorfile folder, the
\* FileNotFoundError reaches its handler and it returns.
C11_DiscoveryNotFound ==
    (pc # "idle" /\ NoMarker(fsStart, InstallRoot)) =>
        /\ \A ord \in DirOrders, acc \in BOOLEAN :
              find_sectorfile_dir(fsStart, InstallRoot, acc, ord) = NotFound
        /\ sectorfile_dir = <<>>
        /\ pc # "detect" => pc = "done" /\ raised /\ log[Len(log)].t = "Unhandled"

C11_Witness ==
    /\ pc = "done" /\ raised /\ NoMarker(fsStart, InstallRoot)
    /\ isdir(fsStart, InstallRoot)
    /\ lexists(fsStart, InstallRoot \o <<"sub", "Include">>)
    /\ isdir(fsStart, InstallRoot \o <<"sub", "old.isc">>)

LastLog == log[Len(log)]

\* C12: the first thing run does is log the detection line, so a line has
\* been delivered before any return; the line delivered last before a return
\* of 2, 3 or 10 is the one describing that condition (the repo failure with
\* the repo path, the shared-source failure, the unhandled error), and those
\* lines are delivered on no other return.
C12_LogBeforeCode ==
    /\ pc \notin {"idle", "detect"} => Len(log) >= 1 /\ log[1].t = "Detecting"
    /\ pc = "done" =>
          /\ rc = 2 <=> LastLog.t = "ErrRepo"
          /\ rc = 3 <=> LastLog.t = "ErrCOnew"
          /\ rc = 10 <=> LastLog.t = "Unhandled"
          /\ rc = 0 <=> LastLog.t \in {"Done", "WouldLink"}
          /\ rc = 2 => LastLog.p = repo
          /\ rc = 3 => LastLog.p = src_main \o <<"Include", "COnew">>
          /\ \A i \in 1..(Len(log) - 1) :
                log[i].t \notin {"ErrRepo", "ErrCOnew", "Unhandled", "Done"}

C12_Witness ==
    /\ pc = "done" /\ rc = 2 /\ Len(log) = 3
    /\ LastLog = L("ErrRepo", <<"repo">>) /\ log[1].t = "Detecting"

\* the calls of the file-linking pass
FileOps == {"link", "symlink", "mklinkH", "copy2"}
SameFile(c, d) == c.src = d.src /\ c.dst = d.dst

\* C13: in the trace of host calls, a removal of a destination file is
\* followed by the next call for that destination whether it succeeded or
\* not; a symbolic link is attempted exactly when the hard link for the same
\* file has just failed, mklink /H exactly when the symbolic link for the
\* same file has just failed; nothing follows a successful mechanism for
\* that file; the caller's copy (made when the call returned False) comes
\* exactly after a failed mklink /H, so False is returned exactly when all
\* three failed; a successful mechanism leaves a second entry for the
\* source's file object or a symbolic link to it, never a new file object.
C13_MechanismOrder ==
    \A i \in 1..Len(calls) :
        LET c == calls[i]
            hasPrev == i > 1
            hasNext == i < Len(calls)
        IN /\ (c.op = "remove" /\ Last(c.dst) \notin {"COnew", "COnew_2"}) =>
                 /\ hasNext /\ calls[i + 1].dst = c.dst
                 /\ calls[i + 1].op \in {"remove", "link"}
           /\ c.op = "symlink" =>
                 hasPrev /\ calls[i - 1].op = "link" /\ ~calls[i - 1].ok
                 /\ SameFile(calls[i - 1], c)
           /\ c.op = "mklinkH" =>
                 hasPrev /\ calls[i - 1].op = "symlink" /\ ~calls[i - 1].ok
                 /\ SameFile(calls[i - 1], c)
           /\ c.op = "copy2" =>
                 hasPrev /\ calls[i - 1].op = "mklinkH" /\ ~calls[i - 1].ok
                 /\ SameFile(calls[i - 1], c)
           /\ (c.op = "link" /\ ~c.ok) => hasNext /\ calls[i + 1].op = "symlink"
           /\ (c.op = "symlink" /\ ~c.ok) => hasNext /\ calls[i + 1].op = "mklinkH"
           /\ (c.op = "mklinkH" /\ ~c.ok) => hasNext /\ calls[i + 1].op = "copy2"
           /\ (c.op \in {"link", "symlink", "mklinkH"} /\ c.ok) =>
                 /\ hasNext => calls[i + 1].dst # c.dst
                 /\ LoggedAt({CASE c.op = "link" -> "HardLink"
                                 [] c.op = "symlink" -> "Symlink"
                                 [] OTHER -> "MklinkH"}, c.dst)
                 /\ lexists(fs, c.dst)
                 /\ IF c.op = "symlink" THEN fs[c.dst] = Symlink(c.src)
                    ELSE lexists(fs, c.src) /\ fs[c.dst] = fs[c.src]

C13_Witness ==
    /\ pc = "done" /\ rc = 0
    /\ \E i \in 1..Len(calls) : calls[i].op = "mklinkH" /\ calls[i].ok
    /\ \E i \in 1..Len(calls) : calls[i].op = "copy2" /\ Last(calls[i].dst) = "a.isc"

CallsAt(d) == {i \in 1..Len(calls) : calls[i].dst = d}

\* C14: a copy is the fourth call made for a file in a pass, after the hard
\* link, the symbolic link and mklink /H for that same file have failed in
\* that order; a copy that succeeds is logged as 'Copied (fallback)' and no
\* link line is logged for that file, a copy that fails as an error; no copy
\* is ever made to an alias path, and an alias path the run has written is a
\* junction with nothing new beneath it.
C14_CopyLastResort ==
    /\ \A i \in 1..Len(calls) :
          calls[i].op = "copy2" =>
              /\ i > 3
              /\ calls[i - 3].op = "link" /\ calls[i - 2].op = "symlink"
              /\ calls[i - 1].op = "mklinkH"
              /\ \A j \in (i - 3)..(i - 1) : ~calls[j].ok /\ SameFile(calls[j], calls[i])
              /\ \A j \in CallsAt(calls[i].dst) : j <= i
              /\ LoggedAt({IF calls[i].ok THEN "Copied" ELSE "ErrCopy"}, calls[i].dst)
              /\ ~LoggedAt({"HardLink", "Symlink", "MklinkH"}, calls[i].dst)
              /\ calls[i].dst \notin AliasDest
    /\ \A i \in 1..Len(log) :
          log[i].t = "Copied" =>
              \E j \in 1..Len(calls) :
                  calls[j].op = "copy2" /\ calls[j].ok /\ calls[j].dst = log[i].p
    /\ sectorfile_dir # <<>> =>
          \A d \in AliasDest :
              /\ (lexists(fs, d) /\ ~Kept(d)) =>
                    fs[d] = Junction(src_main \o <<"Include", "COnew">>)
              /\ (lexists(fs, d) /\ ~lexists(fsStart, d)) =>
                    fs[d] = Junction(src_main \o <<"Include", "COnew">>)
              /\ \A q \in Beneath(fs, d) : lexists(fsStart, q) /\ fs[q] = fsStart[q]

C14_Witness ==
    /\ pc = "done" /\ rc = 0 /\ Disjoint
    /\ \E i \in 1..Len(calls) :
          /\ calls[i].op = "copy2" /\ calls[i].ok
          /\ ~lexists(fsStart, calls[i].dst)
          /\ isfile(fs, calls[i].dst) /\ fs[calls[i].dst].id >= 20
    /\ Logged("Copied") /\ Logged("JunctionCreated")

\* the top-level regular files of the source main folder with extension
\* .isc or .clr in any case, when the run started
RecognizedSrc ==
    {Last(q) : q \in {c \in Children(fsStart, src_main) :
                         /\ isfile(fsStart, c)
                         /\ lower(splitext(Last(c))) \in {".isc", ".clr"}}}
SkippedNames ==
    {n \in RecognizedSrc : exists(fsStart, join(sectorfile_dir, n)) /\ ~force}
LinesOf(t) == {i \in 1..Len(log) : log[i].t = t}
AttemptedDest == {calls[i].dst : i \in {j \in 1..Len(calls) : calls[j].op = "link"}}

\* C15: the count is at every moment the number of files for which the link
\* attempt was made; the count logged when run returns 0 is the number of
\* recognized top-level regular files of the source main folder minus those
\* skipped (destination existing, force off), each of which has its
\* 'Skipping' line, whatever became of the attempts and of the copies; no
\* call is ever made for a subdirectory or for a file with another
\* extension.
C15_ProcessedCount ==
    /\ pc \in {"link", "done"} /\ src_main # <<>> /\ ~dry_run =>
          /\ linked = Cardinality(AttemptedDest)
          /\ \A i \in 1..Len(calls) :
                calls[i].op \in FileOps \cup {"remove"} /\ calls[i].dst \notin AliasDest
                => \E n \in RecognizedSrc : calls[i].dst = join(sectorfile_dir, n)
    /\ (pc = "done" /\ rc = 0 /\ ~dry_run) =>
          /\ \E i \in 1..Len(log) :
                /\ log[i].t = "Linked"
                /\ log[i].n = Cardinality(RecognizedSrc) - Cardinality(SkippedNames)
                /\ log[i].n = linked
          /\ Cardinality(LinesOf("Skipping")) = Cardinality(SkippedNames)
          /\ \A n \in SkippedNames : LoggedAt({"Skipping"}, join(sectorfile_dir, n))
          /\ AttemptedDest = {join(sectorfile_dir, n) : n \in RecognizedSrc \ SkippedNames}

C15_Witness ==
    /\ pc = "done" /\ rc = 0 /\ ~dry_run /\ Disjoint
    /\ Logged("ErrCopy") /\ Logged("Skipping") /\ linked = 1
    /\ isdir(fsStart, join(src_main, "old.isc"))
    /\ isfile(fsStart, join(src_main, "c.txt"))

JunctionCalls == SelectSeq(calls, LAMBDA c : c.op = "mklinkJ")
AliasPath(i) == sectorfile_dir \o <<"Include", AliasNames[i]>>
NoAliasAtStart == \A d \in AliasDest : ~exists(fsStart, d)

\* C16: in a run that reached create_conew_junctions with force on, or with
\* neither alias path existing, nothing is raised there: once the loop is
\* over, exactly two junction attempts have been made, for COnew and then
\* for COnew_2, both with the source Include/COnew as target, whatever
\* became of the removals and of the first attempt; each removal comes right
\* before the attempt for the same alias; the list returned holds exactly
\* the aliases whose attempt succeeded, each now a junction to the source.
C16_AliasIndependence ==
    (prog # <<>> /\ (force \/ NoAliasAtStart)) =>
        /\ ~raised /\ (pc = "done" => rc = 0)
        /\ Len(JunctionCalls) = (IF pc = "junction" THEN alias - 1 ELSE 2)
        /\ \A i \in 1..Len(JunctionCalls) :
              /\ JunctionCalls[i].dst = AliasPath(i)
              /\ JunctionCalls[i].src = src_main \o <<"Include", "COnew">>
        /\ \A i \in 1..Len(calls) :
              calls[i].dst \in AliasDest /\ calls[i].op # "mklinkJ" =>
                  /\ calls[i].op \in {"rmtree", "remove"}
                  /\ i < Len(calls) /\ calls[i + 1].op = "mklinkJ"
                  /\ calls[i + 1].dst = calls[i].dst
        /\ created = [i \in 1..Len(created) |->
                         SelectSeq(JunctionCalls, LAMBDA c : c.ok)[i].dst]
        /\ Len(created) = Len(SelectSeq(JunctionCalls, LAMBDA c : c.ok))
        /\ \A i \in 1..Len(created) :
              lexists(fs, created[i])
              /\ fs[created[i]] = Junction(src_main \o <<"Include", "COnew">>)

C16_Witness ==
    /\ pc = "done" /\ rc = 0 /\ force /\ Disjoint /\ Len(calls) >= 2
    /\ calls[1] = C("rmtree", <<>>, AliasPath(1), FALSE)
    /\ calls[2].op = "mklinkJ" /\ ~calls[2].ok
    /\ created = <<AliasPath(2)>>
    /\ LoggedAt({"ErrJunction"}, AliasPath(1))

\* a file (non-directory entry) with one of the extensions exts beneath d
FileBelow(d, exts) ==
    \E q \in Beneath(fsStart, d) :
        ~isdir(fsStart, q) /\ lower(splitext(Last(q))) \in exts

\* C17: when the install root is a directory that holds the Include
\* directory, or a .isc or .clr file anywhere beneath it, discovery returns
\* the root itself.
C17_MarkedRootIsReturned ==
    (/\ pc \notin {"idle", "detect"}
     /\ isdir(fsStart, InstallRoot)
     /\ \/ isdir(fsStart, join(InstallRoot, "Include"))
        \/ FileBelow(InstallRoot, {".isc", ".clr"}))
    => sectorfile_dir = InstallRoot

\* the messages the window shows: log lines and the final done/error
Shown(ms) == SelectSeq(ms, LAMBDA m : m.t \in {"log", "done", "error"})

\* C18: once the worker thread has ended and polling has stopped (no _poll
\* is running or scheduled), nothing is left in the queue: every log line
\* the worker enqueued and its final done message are in the output widget,
\* in the order they were enqueued.
C18_EverythingSurfaced ==
    (_thread = "dead" /\ poller = "off") =>
        /\ _queue = <<>>
        /\ widget = Shown(emitted)
        /\ \E i \in 1..Len(widget) : widget[i].t = "done"

\* the source when the run started: the files directly in the source main
\* folder, and the source Include/COnew directory with all beneath it
SourceCOnew == src_main \o <<"Include", "COnew">>
SourceEntries ==
    {q \in Children(fsStart, src_main) : fsStart[q].k = "file"}
    \cup {SourceCOnew} \cup Beneath(fsStart, SourceCOnew)

\* C19: from the moment the source main folder is resolved, every file of
\* it and the whole source Include/COnew tree stay as they were when the
\* run started, and no removal is made at the path of a source entry.
C19_SourceNeverDamaged ==
    (pc # "idle" /\ src_main # <<>>) =>
        /\ \A p \in SourceEntries : Kept(p)
        /\ \A i \in 1..Len(calls) :
              calls[i].op \in {"remove", "rmtree"} => calls[i].dst \notin SourceEntries

\* C20 as stated: whenever run returns 0 and was not dry (the install tree
\* lying outside the repository), both alias paths exist and resolve to the
\* source Include/COnew, and every recognized top-level file of the source
\* main folder has a same-named entry in the sectorfile folder.
C20_SuccessImpliesLinks ==
    (pc = "done" /\ rc = 0 /\ ~dry_run /\ Disjoint) =>
        /\ \A d \in AliasDest : Resolve(fs, d) = {SourceCOnew}
        /\ \A n \in RecognizedSrc : lexists(fs, join(sectorfile_dir, n))

\* C20 as amended: whenever run returns 0 and was not dry, each alias has
\* its 'junction created' line or its error line; an alias with the
\* 'junction created' line is a junction to the source Include/COnew; and
\* every recognized top-level file of the source main folder with no
\* copy-error line has a same-named entry in the sectorfile folder.
C20_LoggedLinksEstablished ==
    (pc = "done" /\ rc = 0 /\ ~dry_run) =>
        /\ \A d \in AliasDest :
              /\ LoggedAt({"JunctionCreated", "ErrJunction"}, d)
              /\ LoggedAt({"JunctionCreated"}, d) =>
                    lexists(fs, d) /\ fs[d] = Junction(SourceCOnew)
        /\ \A n \in RecognizedSrc :
              ~LoggedAt({"ErrCopy"}, join(sectorfile_dir, n))
              => lexists(fs, join(sectorfile_dir, n))

C20_Witness ==
    /\ pc = "done" /\ rc = 0 /\ ~dry_run /\ Disjoint
    /\ LoggedAt({"JunctionCreated"}, AliasPath(2))
    /\ LoggedAt({"ErrJunction"}, AliasPath(1))
    /\ LoggedAt({"ErrCopy"}, join(sectorfile_dir, "a.isc"))
    /\ LoggedAt({"HardLink"}, join(sectorfile_dir, "B.CLR"))

====
